---- MODULE Spec2Model ----
(***************************************************************************)
(* The RFP analysis pipeline of app/agents: the LangGraph workflow         *)
(* parser -> analyzer -> matcher -> scorer -> response (graph.py), the     *)
(* shared RFPState record (state.py), the tiered catalog retrieval and the *)
(* deterministic fallback scorer (matcher_agent.py).                       *)
(*                                                                         *)
(* Conventions.  A Python value that may be None is a record               *)
(* [some |-> FALSE] (None) or [some |-> TRUE, val |-> v].  A Python str is *)
(* a sequence of one-character strings, so that lower() and the substring  *)
(* test `a in b` are computed, not assumed.  A float voltage is kept in    *)
(* tenths of a kV (1.1 kV = 11, 33 kV = 330).                              *)
(***************************************************************************)
EXTENDS Integers, Sequences, FiniteSets, TLC

VARIABLES
    pc,                   \* the node the graph runs next, "END", "returned" or "raised"
    sections,             \* RFPState.sections
    requirements,         \* RFPState.requirements
    rfp_text,             \* RFPState.rfp_text
    requirement_matches,  \* RFPState.requirement_matches
    overall_score,        \* RFPState.overall_score
    scoring_breakdown,    \* RFPState.scoring_breakdown
    recommendations,      \* RFPState.recommendations
    proposal,             \* RFPState.proposal_summary, technical_response, commercial_response
    errors,               \* RFPState.errors
    summary_fields,       \* project_summary, budget_info and timeline_info
    current_agent,        \* RFPState.current_agent
    status,               \* the "status" of the record run_rfp_analysis returns
    executed,             \* history: the nodes invoked so far, in order
    raised_in,            \* history: the node an exception escaped from, or "none"
    sessions_acquired,    \* history: catalog sessions get_db_session() returned
    sessions_open,        \* catalog sessions not yet closed
    llm_calls,            \* history: llm.invoke calls made: <<node, pass, outcome>>
    catalog,              \* the rows of the components table, in the order queries return them
    fn_pc,                \* a single call of a function: "call", "done", or "idle" in a run
    fn_specs,             \* the call's argument: a requirement's specifications
    fn_candidates,        \* what query_components_for_requirement returned, with its tier
    fn_result,            \* what simple_score_matches returned
    records,              \* routes.py: the RFP records crud holds, by rfp_id
    analysis_status,      \* routes.py: the analysis_status dict
    analysis_results,     \* routes.py: the analysis_results dict
    tasks,                \* history: the background tasks add_task scheduled, in order
    handler,              \* the /analyze request the event loop is serving, if any
    response              \* the last HTTP response the API sent

vars == <<pc, rfp_text, sections, requirements, summary_fields, requirement_matches, overall_score,
          scoring_breakdown, recommendations, proposal, errors, current_agent, status, executed, raised_in,
          sessions_acquired, sessions_open, llm_calls, catalog,
          fn_pc, fn_specs, fn_candidates, fn_result,
          records, analysis_status, analysis_results, tasks, handler, response>>

\* the variables of a single function call
fnVars == <<fn_pc, fn_specs, fn_candidates, fn_result>>

\* the variables of the API layer
apiVars == <<records, analysis_status, analysis_results, tasks, handler, response>>

(***************************************************************************)
(* Bounds of the model.                                                    *)
(***************************************************************************)
MaxSections == 1
MaxReqs == 2

(***************************************************************************)
(* Python values: None, truthiness, str.lower() and the `in` test.         *)
(***************************************************************************)
None == [some |-> FALSE]

Some(v) == [some |-> TRUE, val |-> v]

\* bool(x) of a number or None: None and 0 are falsy
TruthyNum(x) == x.some /\ x.val # 0

\* bool(x) of a str or None: None and "" are falsy
TruthyStr(x) == x.some /\ x.val # <<>>

LowerChar(c) ==
    CASE c = "A" -> "a"
      [] c = "C" -> "c"
      [] c = "E" -> "e"
      [] c = "L" -> "l"
      [] c = "U" -> "u"
      [] c = "X" -> "x"
      [] c = "P" -> "p"
      [] c = "S" -> "s"
      [] c = "W" -> "w"
      [] OTHER -> c

Lower(s) == [i \in 1..Len(s) |-> LowerChar(s[i])]

\* needle in hay, for two str
Contains(needle, hay) ==
    \E i \in 0..(Len(hay) - Len(needle)) :
        SubSeq(hay, i + 1, i + Len(needle)) = needle

\* seq[:n]
Take(seq, n) == SubSeq(seq, 1, IF Len(seq) < n THEN Len(seq) ELSE n)

(***************************************************************************)
(* The components table (db/models.py) and component_to_dict.              *)
(***************************************************************************)
NumFields == {"voltage_kv", "cross_section_mm2"}

SubstrFields == {"conductor", "insulation", "armour"}

ScoredFields == {"voltage_kv", "cross_section_mm2", "conductor", "insulation", "cores", "armour"}

\* bool(d.get(f)) for a specification or candidate dict d
Truthy(d, f) == IF f \in NumFields THEN TruthyNum(d[f]) ELSE TruthyStr(d[f])

\* x or 0
OrZero(x) == IF TruthyNum(x) THEN x.val ELSE 0

component_to_dict(component) ==
    [component_id |-> component.id,
     sku |-> component.sku,
     name |-> component.name,
     category |-> component.category,
     voltage_kv |-> component.voltage_kv,
     conductor |-> component.conductor,
     cores |-> component.cores,
     cross_section_mm2 |-> component.cross_section_mm2,
     insulation |-> component.insulation,
     armour |-> component.armour,
     price_per_meter |-> OrZero(component.price_per_meter),
     in_stock |-> component.in_stock,
     lead_time_days |-> OrZero(component.lead_time_days)]

(***************************************************************************)
(* query_components_for_requirement: the three retrieval tiers.            *)
(***************************************************************************)
Tier1Limit == 10
Tier2Limit == 10
Tier3Limit == 5
LTMaxVoltage == 11
HTMaxVoltage == 330

\* LIKE in place of ILIKE: the substring test keeps the case
FilterHoldsCaseSensitive(f, specs, component) ==
    /\ component[f].some
    /\ IF f \in SubstrFields
       THEN Contains(specs[f].val, component[f].val)
       ELSE component[f].val = specs[f].val

\* the SQL condition the code appends for field f: == for voltage, cores and
\* cross-section, ILIKE '%v%' for conductor, insulation and armour; a NULL
\* column satisfies neither
FilterHolds(f, specs, component) ==
    /\ component[f].some
    /\ IF f \in SubstrFields
       THEN Contains(Lower(specs[f].val), Lower(component[f].val))
       ELSE component[f].val = specs[f].val

\* the fields `filters` is built from: those with a truthy value in specs
FilterFields(specs) == {f \in ScoredFields : Truthy(specs, f)}

\* a fallback that keeps the voltage filter only
PriorityFieldsVoltageOnly(specs) == {f \in {"voltage_kv"} : Truthy(specs, f)}

PriorityFields(specs) == {f \in NumFields : Truthy(specs, f)}

\* session.query(Component).filter(and_(...)).limit(n).all()
QueryAll(rows, specs, fields, n) ==
    Take(SelectSeq(rows, LAMBDA c : \A f \in fields : FilterHolds(f, specs, c)), n)

\* strict comparisons at the two thresholds
VoltageCategoryStrict(v) ==
    IF v < LTMaxVoltage THEN "LT Cable"
    ELSE IF v < HTMaxVoltage THEN "HT Cable"
    ELSE "EHV Cable"

VoltageCategory(v) ==
    IF v <= LTMaxVoltage THEN "LT Cable"
    ELSE IF v <= HTMaxVoltage THEN "HT Cable"
    ELSE "EHV Cable"

\* the category query without its limit
QueryCategoryUnlimited(rows, category, n) ==
    SelectSeq(rows, LAMBDA c : c.category = Some(category))

QueryCategory(rows, category, n) ==
    Take(SelectSeq(rows, LAMBDA c : c.category = Some(category)), n)

ToDicts(results) == [i \in 1..Len(results) |-> component_to_dict(results[i])]

\* the tier that answers and the rows it returns
QueryTrace(rows, specs) ==
    LET filters  == FilterFields(specs)
        results1 == QueryAll(rows, specs, filters, Tier1Limit)
        priority == PriorityFields(specs)
        results2 == QueryAll(rows, specs, priority, Tier2Limit)
    IN  IF filters # {} /\ results1 # <<>>
        THEN [tier |-> 1, rows |-> ToDicts(results1)]
        ELSE IF filters # {} /\ priority # {} /\ results2 # <<>>
        THEN [tier |-> 2, rows |-> ToDicts(results2)]
        ELSE IF TruthyNum(specs.voltage_kv)
        THEN [tier |-> 3,
              rows |-> ToDicts(QueryCategory(rows, VoltageCategory(specs.voltage_kv.val),
                                             Tier3Limit))]
        ELSE [tier |-> 0, rows |-> <<>>]

query_components_for_requirement(rows, specs) == QueryTrace(rows, specs).rows

(***************************************************************************)
(* simple_score_matches: the deterministic fallback scorer.                *)
(***************************************************************************)
TopN == 5

Weight(f) ==
    CASE f = "voltage_kv" -> 25
      [] f = "cross_section_mm2" -> 25
      [] f = "conductor" -> 15
      [] f = "insulation" -> 15
      [] f = "cores" -> 10
      [] f = "armour" -> 10

\* the voltage test the wrong way round: a candidate rated at or below the requirement
FieldMatchesAtMost(f, specs, comp) ==
    CASE f = "voltage_kv" -> comp[f].val <= specs[f].val
      [] f \in SubstrFields -> Contains(Lower(specs[f].val), Lower(comp[f].val))
      [] OTHER -> comp[f].val = specs[f].val

\* the test that awards field f its points
FieldMatches(f, specs, comp) ==
    CASE f = "voltage_kv" -> comp[f].val >= specs[f].val
      [] f \in SubstrFields -> Contains(Lower(specs[f].val), Lower(comp[f].val))
      [] OTHER -> comp[f].val = specs[f].val

\* the fields whose `if specs.get(f) and comp.get(f)` branch is entered
EvaluatedFields(specs, comp) == {f \in ScoredFields : Truthy(specs, f) /\ Truthy(comp, f)}

\* the dict `matched` once the six blocks have run
MatchedSpecs(specs, comp) ==
    [f \in EvaluatedFields(specs, comp) |-> FieldMatches(f, specs, comp)]

\* a field that was not evaluated counts as matched
FieldPointsLenient(matched, f) == IF f \in DOMAIN matched /\ ~matched[f] THEN 0 ELSE Weight(f)

\* the points the block of field f adds to `score`
FieldPoints(matched, f) == IF f \in DOMAIN matched /\ matched[f] THEN Weight(f) ELSE 0

ScoreOf(matched) ==
    FieldPoints(matched, "voltage_kv") + FieldPoints(matched, "cross_section_mm2")
    + FieldPoints(matched, "conductor") + FieldPoints(matched, "insulation")
    + FieldPoints(matched, "cores") + FieldPoints(matched, "armour")

ScoredEntry(component_id, matched) ==
    [component_id |-> component_id, score |-> ScoreOf(matched), matched_specs |-> matched]

ScoreCandidate(specs, comp) == ScoredEntry(comp.component_id, MatchedSpecs(specs, comp))

RECURSIVE InsertByScore(_, _)
\* x goes after every element whose score is >= its own: equal scores keep their order
InsertByScore(sorted, x) ==
    IF sorted = <<>> THEN <<x>>
    ELSE IF Head(sorted).score >= x.score
         THEN <<Head(sorted)>> \o InsertByScore(Tail(sorted), x)
         ELSE <<x>> \o sorted

\* a scorer that forgets to sort
KeepOrder(scored) == scored

RECURSIVE SortByScore(_)
\* scored.sort(key=lambda x: x["score"], reverse=True), a stable sort
SortByScore(scored) ==
    IF scored = <<>> THEN <<>>
    ELSE InsertByScore(SortByScore(SubSeq(scored, 1, Len(scored) - 1)), scored[Len(scored)])

\* the dict returned for the sorted list `scored`
ScoreResult(scored) ==
    [scored_matches |-> Take(scored, TopN),
     best_match_id |-> IF scored # <<>> THEN Some(scored[1].component_id) ELSE None,
     coverage_score |-> IF scored # <<>> THEN scored[1].score ELSE 0]

ScoreAll(specs, candidates) ==
    [i \in 1..Len(candidates) |-> ScoreCandidate(specs, candidates[i])]

simple_score_matches(requirement, candidates) ==
    ScoreResult(SortByScore(ScoreAll(requirement.specifications, candidates)))

(***************************************************************************)
(* The language model.  Each call has one of these outcomes; what a reply  *)
(* holds is chosen by the caller's action from a bounded set.              *)
(*   construct_error  get_llm raises (no GOOGLE_API_KEY, client failure)   *)
(*   invoke_error     llm.invoke raises (transport, authentication)        *)
(*   not_json         the reply is not JSON: json.loads raises             *)
(*   bad_shape        JSON of another shape: using it raises in the try    *)
(*   ok               a JSON object of the expected shape                  *)
(***************************************************************************)
LLMOutcomes == {"construct_error", "invoke_error", "not_json", "bad_shape", "ok"}

\* whether get_llm returns a client (llm.py: raise ValueError otherwise)
get_llm(outcome) == outcome # "construct_error"

\* whether llm.invoke was reached: the client was built
Invoked(outcome) == get_llm(outcome)

(***************************************************************************)
(* parser_agent                                                            *)
(***************************************************************************)
Section == [name |-> "Scope of Work", content |-> "text"]

SectionLists == UNION {[1..n -> {Section}] : n \in 0..MaxSections}

\* the update parser_agent returns, given the outcome of its call and the
\* sections a well-formed reply holds
parser_agent(outcome, reply) ==
    IF outcome = "ok"
    THEN [sections |-> reply, current_agent |-> "parser", errors |-> <<>>]
    ELSE IF outcome = "not_json"
    THEN [sections |-> <<>>, current_agent |-> "parser",
          errors |-> <<"Parser Agent: Failed to parse LLM response as JSON">>]
    ELSE [sections |-> <<>>, current_agent |-> "parser",
          errors |-> <<"Parser Agent: exception">>]

(***************************************************************************)
(* analyzer_agent                                                          *)
(***************************************************************************)
DigitChar(d) ==
    CASE d = 0 -> "0" [] d = 1 -> "1" [] d = 2 -> "2" [] d = 3 -> "3" [] d = 4 -> "4"
      [] d = 5 -> "5" [] d = 6 -> "6" [] d = 7 -> "7" [] d = 8 -> "8" [] d = 9 -> "9"

RECURSIVE Decimal(_)
\* str(n) for n >= 0
Decimal(n) == IF n < 10 THEN <<DigitChar(n)>> ELSE Decimal(n \div 10) \o <<DigitChar(n % 10)>>

RECURSIVE ZeroPad(_, _)
\* the d of format spec 0<width>d: zeros on the left up to the width
ZeroPad(s, width) == IF Len(s) >= width THEN s ELSE ZeroPad(<<"0">> \o s, width)

\* the index used as it is, without the + 1
SyntheticIdFromZero(i) == <<"R", "E", "Q", "-">> \o ZeroPad(Decimal(i), 3)

\* f"REQ-{i+1:03d}" for the 0-based index i
SyntheticId(i) == <<"R", "E", "Q", "-">> \o ZeroPad(Decimal(i + 1), 3)

\* project_summary "", budget_info None, timeline_info None: the initial state
\* and what analyzer_agent returns on each of its failure paths
NoSummary == [project_summary |-> "", budget_info |-> None, timeline_info |-> None]

\* the three fields as a well-formed reply holds them
ReplySummary ==
    [project_summary |-> "cable supply", budget_info |-> Some("budget"),
     timeline_info |-> Some("timeline")]

\* the requirements analyzer_agent builds from the reply's "requirements"
NormalizeRequirements(reply) ==
    [k \in 1..Len(reply) |->
        [id |-> IF reply[k].id.some THEN reply[k].id.val ELSE SyntheticId(k - 1),
         specifications |-> reply[k].specifications]]

analyzer_agent(secs, outcome, reply) ==
    IF secs = <<>>
    THEN [requirements |-> <<>>, summary_fields |-> NoSummary, current_agent |-> "analyzer",
          errors |-> <<"Analyzer Agent: No sections to analyze">>]
    ELSE IF outcome = "ok"
    THEN [requirements |-> NormalizeRequirements(reply), summary_fields |-> ReplySummary,
          current_agent |-> "analyzer", errors |-> <<>>]
    ELSE IF outcome = "not_json"
    THEN [requirements |-> <<>>, summary_fields |-> NoSummary, current_agent |-> "analyzer",
          errors |-> <<"Analyzer Agent: Failed to parse LLM response">>]
    ELSE [requirements |-> <<>>, summary_fields |-> NoSummary, current_agent |-> "analyzer",
          errors |-> <<"Analyzer Agent: exception">>]

(***************************************************************************)
(* matcher_agent and score_matches_with_llm                                *)
(***************************************************************************)
Reverse(seq) == [i \in 1..Len(seq) |-> seq[Len(seq) + 1 - i]]

\* The replies the model may give when asked to score `candidates`, whose
\* fallback scoring is `simple`:
\*   faithful  what simple_score_matches computes
\*   unsorted  the same entries in ascending order of score
\*   invented  one entry whose component_id is no candidate's
\*   over      the first candidate with a score and a coverage above 100
MatcherReplies == {"faithful", "unsorted", "invented", "over"}

MatcherReply(kind, simple, candidates, rows) ==
    CASE kind = "faithful" ->
          [scored_matches |-> simple.scored_matches,
           coverage_score |-> Some(simple.coverage_score)]
      [] kind = "unsorted" ->
          [scored_matches |-> Reverse(simple.scored_matches),
           coverage_score |-> Some(simple.coverage_score)]
      [] kind = "invented" ->
          [scored_matches |-> <<[component_id |-> Len(rows) + 1, score |-> 90,
                                matched_specs |-> [f \in {"voltage_kv"} |-> TRUE]]>>,
           coverage_score |-> Some(90)]
      [] kind = "over" ->
          [scored_matches |-> <<[component_id |-> candidates[1].component_id,
                                score |-> 150,
                                matched_specs |-> [f \in {"voltage_kv"} |-> TRUE]]>>,
           coverage_score |-> Some(150)]

\* the try of score_matches_with_llm once the client is built: the parsed
\* reply whatever its shape, or `simple` (the except branch) when the call or
\* json.loads raises.  dict: the value is a JSON object.  The outcome
\* missing_keys is a JSON object without scored_matches and coverage_score,
\* for which matcher_agent's .get defaults ([] and 0) apply
TryLLMScoring(out, simple, candidates, rows) ==
    IF out.llm = "ok"
    THEN [raised |-> FALSE, dict |-> TRUE,
          value |-> MatcherReply(out.reply, simple, candidates, rows)]
    ELSE IF out.llm = "bad_shape"
    THEN [raised |-> FALSE, dict |-> FALSE, value |-> None]
    ELSE IF out.llm = "missing_keys"
    THEN [raised |-> FALSE, dict |-> TRUE,
          value |-> [scored_matches |-> <<>>, coverage_score |-> Some(0)]]
    ELSE [raised |-> FALSE, dict |-> TRUE,
          value |-> [scored_matches |-> simple.scored_matches,
                     coverage_score |-> Some(simple.coverage_score)]]

\* What score_matches_with_llm does: it raises when the client cannot be
\* built (get_analyzer_llm is outside its try).
\*   raised: an exception leaves the function
score_matches_with_llm(requirement, candidates, out, rows) ==
    IF candidates = <<>>
    THEN [raised |-> FALSE, dict |-> TRUE,
          value |-> [scored_matches |-> <<>>, coverage_score |-> Some(0)]]
    ELSE IF ~get_llm(out.llm)
    THEN [raised |-> TRUE, dict |-> FALSE, value |-> None]
    ELSE TryLLMScoring(out, simple_score_matches(requirement, candidates), candidates, rows)

\* next((c for c in candidates if c["component_id"] == id), None)
FindCandidate(candidates, id) ==
    LET hits == SelectSeq(candidates, LAMBDA c : c.component_id = id)
    IN  IF hits = <<>> THEN None ELSE Some(hits[1])

ComponentMatch(comp, scored) ==
    [component_id |-> comp.component_id,
     sku |-> comp.sku,
     name |-> comp.name,
     category |-> comp.category,
     score |-> scored.score,
     matched_specs |-> scored.matched_specs,
     price_per_meter |-> comp.price_per_meter,
     in_stock |-> comp.in_stock,
     lead_time_days |-> comp.lead_time_days]

\* an entry built for every scored match, from the reply when no candidate
\* has its id
MatchEntryFromReply(comp, scored) ==
    IF comp.some THEN <<ComponentMatch(comp.val, scored)>>
    ELSE <<[component_id |-> scored.component_id, sku |-> <<"SKU", 0>>, name |-> "",
            category |-> None, score |-> scored.score,
            matched_specs |-> scored.matched_specs, price_per_meter |-> 0,
            in_stock |-> FALSE, lead_time_days |-> 0]>>

\* `if comp: matches.append(...)`: the entry a scored match adds, if any
MatchEntry(comp, scored) == IF comp.some THEN <<ComponentMatch(comp.val, scored)>> ELSE <<>>

RECURSIVE BuildMatches(_, _)
\* the ComponentMatch list: one entry per scored match whose id is a candidate's
BuildMatches(scored_matches, candidates) ==
    IF scored_matches = <<>> THEN <<>>
    ELSE MatchEntry(FindCandidate(candidates, Head(scored_matches).component_id),
                    Head(scored_matches))
         \o BuildMatches(Tail(scored_matches), candidates)

NoMatch(req) ==
    [requirement_id |-> req.id, matches |-> <<>>, best_match |-> None, coverage_score |-> 0]

\* the RequirementMatch appended for the ComponentMatch list `matches`
RequirementMatch(req, matches, coverage) ==
    [requirement_id |-> req.id,
     matches |-> matches,
     best_match |-> IF matches # <<>> THEN Some(matches[1]) ELSE None,
     coverage_score |-> OrZero(coverage)]

\* the `if candidates:` branch, given what score_matches_with_llm did
ScoredBranch(req, out, candidates, result) ==
    IF result.raised \/ ~result.dict
    THEN [raised |-> TRUE, called |-> Invoked(out.llm), llm |-> out.llm, rm |-> NoMatch(req)]
    ELSE [raised |-> FALSE, called |-> TRUE, llm |-> out.llm,
          rm |-> RequirementMatch(req, BuildMatches(result.value.scored_matches, candidates),
                                  result.value.coverage_score)]

\* the loop body once the query has returned `candidates`
MatchCandidates(req, out, rows, candidates) ==
    IF candidates = <<>>
    THEN [raised |-> FALSE, called |-> FALSE, llm |-> out.llm, rm |-> NoMatch(req)]
    ELSE ScoredBranch(req, out, candidates, score_matches_with_llm(req, candidates, out, rows))

\* One pass of the loop body for requirement req.  out.query is "error" when
\* the catalog query raises; out.llm and out.reply describe the scoring call.
\*   raised: the body raised; called: llm.invoke was reached
MatchRequirement(req, out, rows) ==
    IF out.query = "error"
    THEN [raised |-> TRUE, called |-> FALSE, llm |-> out.llm, rm |-> NoMatch(req)]
    ELSE MatchCandidates(req, out, rows,
                         query_components_for_requirement(rows, req.specifications))

\* the loop's results after pass k did `step`
AfterPass(acc, k, step) ==
    [requirement_matches |-> IF step.raised THEN acc.requirement_matches
                             ELSE Append(acc.requirement_matches, step.rm),
     errors |-> IF step.raised THEN <<"Matcher Agent: exception">> ELSE acc.errors,
     calls |-> IF step.called THEN Append(acc.calls, <<"matcher", k, step.llm>>) ELSE acc.calls,
     stopped |-> step.raised]

(***************************************************************************)
(* scorer_agent.  A score is a fraction [num, den]: Python divides floats. *)
(***************************************************************************)
Frac(n, d) == [num |-> n, den |-> d]

RECURSIVE SumCoverage(_)
SumCoverage(rms) == IF rms = <<>> THEN 0 ELSE Head(rms).coverage_score + SumCoverage(Tail(rms))

\* sum(1 for rm in requirement_matches if rm.get("best_match"))
MatchedCount(rms) == Len(SelectSeq(rms, LAMBDA rm : rm.best_match.some))

InStockCount(rms) ==
    Len(SelectSeq(rms, LAMBDA rm : rm.best_match.some /\ rm.best_match.val.in_stock))

EmptyBreakdown == [kind |-> "empty"]

\* an availability taken over all requirements, matched or not
FallbackBreakdownOverTotal(rms) ==
    [kind |-> "fallback",
     technical_coverage |-> Frac(SumCoverage(rms) * 4, Len(rms) * 10),
     availability |-> Frac(InStockCount(rms) * 20, Len(rms))]

\* the scoring_breakdown of the except branch: the two weighted_score entries
FallbackBreakdown(rms) ==
    [kind |-> "fallback",
     technical_coverage |-> Frac(SumCoverage(rms) * 4, Len(rms) * 10),
     availability |-> IF MatchedCount(rms) > 0
                      THEN Frac(InStockCount(rms) * 20, MatchedCount(rms))
                      ELSE Frac(0, 1)]

\* The update scorer_agent returns.  reply is the overall_score of a
\* well-formed reply, or None when the reply has no such key.
scorer_agent(rms, outcome, reply) ==
    IF rms = <<>>
    THEN [overall_score |-> Frac(0, 1), scoring_breakdown |-> EmptyBreakdown,
          recommendations |-> <<"No requirements were matched. Unable to evaluate.">>,
          current_agent |-> "scorer", errors |-> <<"Scorer Agent: No matches to score">>]
    ELSE IF outcome = "ok"
    THEN [overall_score |-> IF reply.some THEN Frac(reply.val, 1)
                            ELSE Frac(SumCoverage(rms), Len(rms)),
          scoring_breakdown |-> [kind |-> "llm"],
          recommendations |-> <<"llm">>,
          current_agent |-> "scorer", errors |-> <<>>]
    ELSE [overall_score |-> Frac(SumCoverage(rms), Len(rms)),
          scoring_breakdown |-> FallbackBreakdown(rms),
          recommendations |-> <<"Match rate", "Average coverage">>,
          current_agent |-> "scorer",
          errors |-> <<"Scorer Agent: LLM scoring failed, using fallback">>]

\* a scorer that builds its client before it looks at its input
ScorerAlwaysUsesLLM(rms) == TRUE

\* whether scorer_agent reaches get_analyzer_llm()
ScorerUsesLLM(rms) == rms # <<>>

(***************************************************************************)
(* response_agent                                                          *)
(***************************************************************************)
\* specs.get("quantity", 1000) of the first requirement with this id; the
\* default holds when the key is missing, not when its value is null
QuantityFor(reqs, id) ==
    LET hits == SelectSeq(reqs, LAMBDA r : r.id = id)
    IN  IF hits = <<>> \/ ~hits[1].specifications.quantity.present
        THEN Some(1000)
        ELSE hits[1].specifications.quantity.value

\* quantity * unit_price raises TypeError when quantity is None; the loop
\* over requirement_matches runs before the try
LineItemsRaise(reqs, rms) ==
    \E k \in 1..Len(rms) :
        rms[k].best_match.some /\ ~QuantityFor(reqs, rms[k].requirement_id).some

response_agent(outcome) ==
    IF outcome = "ok"
    THEN [proposal |-> "llm", current_agent |-> "response", errors |-> <<>>]
    ELSE [proposal |-> "template", current_agent |-> "response",
          errors |-> <<"Response Agent: LLM failed, using template">>]

(***************************************************************************)
(* graph.py: the edges, the errors reducer and the result record.          *)
(***************************************************************************)
\* a graph whose parser edge is unconditional
AlwaysAnalyzer(secs) == "analyzer"

should_continue_after_parser(secs) == IF Len(secs) > 0 THEN "analyzer" ELSE "END"

\* a graph whose analyzer edge is unconditional
AlwaysMatcher(reqs) == "matcher"

should_continue_after_analyzer(reqs) == IF Len(reqs) > 0 THEN "matcher" ELSE "scorer"

\* an edge that sends the matcher's output back to the analyzer
RerunAnalyzer == "analyzer"

AfterMatcher == "scorer"

\* an edge that sends the scorer's output back to the scorer
RetryScorer == "scorer"

AfterScorer == "response"

AfterResponse == "END"

\* a channel without the reducer: the update replaces the log
OverwriteErrors(old, new) == new

\* errors: Annotated[List[str], add]: an update's errors are added to the log
MergeErrors(old, new) == old \o new

\* a status that ignores the log
AlwaysCompleted(errs) == "completed"

\* "completed" if not final_state.get("errors") else "completed_with_errors"
RunStatus(errs) == IF errs = <<>> THEN "completed" ELSE "completed_with_errors"

(***************************************************************************)
(* The inputs of a run: catalog rows and the specifications a reply of the *)
(* analyzer's model may hold.                                              *)
(***************************************************************************)
QtyAbsent == [present |-> FALSE, value |-> None]

Qty(x) == [present |-> TRUE, value |-> x]

\* an aluminium LT cable: 1.1 kV, 3.5C x 95 mm2, XLPE, no armour recorded
KindLT ==
    [name |-> "LT-AL-95", category |-> Some("LT Cable"), voltage_kv |-> Some(11),
     conductor |-> Some(<<"A", "l", "u", "m", "i", "n", "u", "m">>),
     cores |-> Some(<<"3", ".", "5", "C">>), cross_section_mm2 |-> Some(95),
     insulation |-> Some(<<"X", "L", "P", "E">>), armour |-> None,
     price_per_meter |-> Some(120), in_stock |-> TRUE, lead_time_days |-> Some(5)]

\* a copper HT cable: 11 kV, 3C x 95 mm2, XLPE, steel wire armour, out of stock
KindHTCu ==
    [name |-> "HT-CU-95", category |-> Some("HT Cable"), voltage_kv |-> Some(110),
     conductor |-> Some(<<"C", "u">>), cores |-> Some(<<"3", "C">>),
     cross_section_mm2 |-> Some(95), insulation |-> Some(<<"X", "L">>),
     armour |-> Some(<<"S", "W">>),
     price_per_meter |-> Some(300), in_stock |-> FALSE, lead_time_days |-> Some(30)]

\* an aluminium HT cable of the same voltage and cross-section: 4C, PVC, no price
KindHTAl ==
    [name |-> "HT-AL-95", category |-> Some("HT Cable"), voltage_kv |-> Some(110),
     conductor |-> Some(<<"A", "l", "u">>), cores |-> Some(<<"4", "C">>),
     cross_section_mm2 |-> Some(95), insulation |-> Some(<<"P", "V">>),
     armour |-> Some(<<"S", "W">>),
     price_per_meter |-> None, in_stock |-> TRUE, lead_time_days |-> None]

\* a row filed under EHV whose specification columns are NULL
KindBare ==
    [name |-> "EHV-TBD", category |-> Some("EHV Cable"), voltage_kv |-> None,
     conductor |-> None, cores |-> None, cross_section_mm2 |-> None,
     insulation |-> None, armour |-> None,
     price_per_meter |-> Some(40), in_stock |-> TRUE, lead_time_days |-> Some(0)]

\* a copper HT cable of another cross-section: 11 kV, 50 mm2, the rest NULL
KindHT50 ==
    [name |-> "HT-CU-50", category |-> Some("HT Cable"), voltage_kv |-> Some(110),
     conductor |-> Some(<<"C", "U">>), cores |-> None, cross_section_mm2 |-> Some(50),
     insulation |-> None, armour |-> None,
     price_per_meter |-> Some(200), in_stock |-> TRUE, lead_time_days |-> Some(10)]

\* rows get their primary key (autoincrement) and unique sku by position
MkRows(kinds) ==
    [i \in 1..Len(kinds) |-> [id |-> i, sku |-> <<"SKU", i>>] @@ kinds[i]]

\* the end-to-end requirement of the prompt: 1.1 kV 3.5C x 95 XLPE Aluminum, 5000 m
SpecLT ==
    [voltage_kv |-> Some(11), conductor |-> Some(<<"A", "l", "u", "m", "i", "n", "u", "m">>),
     cores |-> Some(<<"3", ".", "5", "C">>), cross_section_mm2 |-> Some(95),
     insulation |-> Some(<<"X", "L", "P", "E">>), armour |-> None,
     quantity |-> Qty(Some(5000))]

\* 11 kV 3C x 95 mm2 copper PVC, "quantity": null; no row has all of it
SpecHT ==
    [voltage_kv |-> Some(110), conductor |-> Some(<<"c", "u">>),
     cores |-> Some(<<"3", "C">>), cross_section_mm2 |-> Some(95),
     insulation |-> Some(<<"P", "V">>), armour |-> None, quantity |-> Qty(None)]

\* the document text run_rfp_analysis is given
RfpText == <<"R", "F", "P">>

PipelineSpecs == {SpecLT, SpecHT}

PipelineCatalogs ==
    {MkRows(<<>>),
     MkRows(<<KindHTAl, KindHTCu, KindBare>>),
     MkRows(<<KindHTAl, KindLT, KindHTCu, KindBare>>)}

RequirementIds == {None, Some(SyntheticId(0))}

\* the "requirements" arrays a well-formed analyzer reply may hold
RequirementReplies ==
    UNION {[1..n -> [id : RequirementIds, specifications : PipelineSpecs]] : n \in 0..MaxReqs}

\* what may happen while one requirement is matched
MatcherOutcomes ==
    {[query |-> "error", llm |-> "ok", reply |-> "faithful"]}
    \cup {[query |-> "ok", llm |-> l, reply |-> "faithful"] :
             l \in {"construct_error", "invoke_error", "not_json", "bad_shape",
                    "missing_keys"}}
    \cup {[query |-> "ok", llm |-> "ok", reply |-> r] : r \in MatcherReplies}

\* the overall_score of a well-formed scorer reply, or no such key
ScorerReplies == {None, Some(72)}

(***************************************************************************)
(* matcher_agent: the loop over the requirements, and the session.         *)
(***************************************************************************)
RECURSIVE MatcherLoop(_, _, _, _)
\* `for req in requirements` inside the try, from pass k on: every result it
\* can end with, over what may happen in each pass; it stops at the first
\* pass that raises
MatcherLoop(reqs, rows, k, acc) ==
    IF k > Len(reqs) \/ acc.stopped THEN {acc}
    ELSE UNION {MatcherLoop(reqs, rows, k + 1,
                            AfterPass(acc, k, MatchRequirement(reqs[k], out, rows))) :
                out \in MatcherOutcomes}

\* a close placed after the loop, inside the try: skipped when a pass raises
ClosedOnSuccess(done) == IF done.stopped THEN 0 ELSE 1

\* sessions the finally clause closes, whether or not the loop raised
SessionsClosed(done) == 1

\* the updates matcher_agent can return once get_db_session() has returned
matcher_agent(reqs, rows) ==
    IF reqs = <<>>
    THEN {[requirement_matches |-> <<>>, current_agent |-> "matcher",
           errors |-> <<"Matcher Agent: No requirements to match">>,
           calls |-> <<>>, acquired |-> 0, closed |-> 0]}
    ELSE {[requirement_matches |-> done.requirement_matches, current_agent |-> "matcher",
           errors |-> done.errors, calls |-> done.calls,
           acquired |-> 1, closed |-> SessionsClosed(done)] :
          done \in MatcherLoop(reqs, rows, 1,
                               [requirement_matches |-> <<>>, errors |-> <<>>,
                                calls |-> <<>>, stopped |-> FALSE])}

(***************************************************************************)
(* src/app/v1/routes.py: the state the API layer keeps.                    *)
(***************************************************************************)
\* the rfp_ids requests may name
RfpIds == {"rfp-a", "rfp-b"}

\* most /analyze requests made in a behaviour
MaxCalls == 3

\* crud.get_rfp_by_id finds nothing
NoRecord == [exists |-> FALSE, text |-> None]

\* the module-level dicts are empty and nothing was uploaded
ApiIdle ==
    /\ records = [id \in RfpIds |-> NoRecord]
    /\ analysis_status = [id \in RfpIds |-> None]
    /\ analysis_results = [id \in RfpIds |-> None]
    /\ tasks = <<>>
    /\ handler = None
    /\ response = None

(***************************************************************************)
(* One run of run_rfp_analysis: initial_state, then the compiled graph.    *)
(***************************************************************************)
Init ==
    /\ pc = "parser"
    /\ sections = <<>>
    /\ requirements = <<>>
    /\ summary_fields = NoSummary
    /\ rfp_text = RfpText
    /\ requirement_matches = <<>>
    /\ overall_score = Frac(0, 1)
    /\ scoring_breakdown = EmptyBreakdown
    /\ recommendations = <<>>
    /\ proposal = ""
    /\ errors = <<>>
    /\ current_agent = ""
    /\ status = "none"
    /\ executed = <<>>
    /\ raised_in = "none"
    /\ sessions_acquired = 0
    /\ sessions_open = 0
    /\ llm_calls = <<>>
    /\ catalog \in PipelineCatalogs
    /\ fn_pc = "idle"
    /\ fn_specs = None
    /\ fn_candidates = None
    /\ fn_result = None
    /\ ApiIdle

\* an exception leaves node: graph.invoke propagates it, no update is merged
Raise(node) ==
    /\ pc' = "raised"
    /\ raised_in' = node
    /\ UNCHANGED <<sections, requirements, requirement_matches, overall_score,
                   scoring_breakdown, recommendations, proposal, errors, current_agent,
                   status, sessions_acquired, sessions_open, llm_calls, catalog, summary_fields, rfp_text>>

ParserNode ==
    /\ pc = "parser"
    /\ UNCHANGED fnVars
    /\ UNCHANGED apiVars
    /\ executed' = Append(executed, "parser")
    /\ \E outcome \in LLMOutcomes, reply \in SectionLists :
        IF ~get_llm(outcome)
        THEN Raise("parser")
        ELSE LET update == parser_agent(outcome, reply)
             IN  /\ sections' = update.sections
                 /\ current_agent' = update.current_agent
                 /\ errors' = MergeErrors(errors, update.errors)
                 /\ llm_calls' = Append(llm_calls, <<"parser", 0, outcome>>)
                 /\ pc' = should_continue_after_parser(update.sections)
                 /\ UNCHANGED <<requirements, requirement_matches, overall_score,
                                scoring_breakdown, recommendations, proposal, status,
                                raised_in, sessions_acquired, sessions_open, catalog, summary_fields, rfp_text>>

AnalyzerNode ==
    /\ pc = "analyzer"
    /\ UNCHANGED fnVars
    /\ UNCHANGED apiVars
    /\ executed' = Append(executed, "analyzer")
    /\ \E outcome \in LLMOutcomes, reply \in RequirementReplies :
        IF ~get_llm(outcome)
        THEN Raise("analyzer")
        ELSE LET update == analyzer_agent(sections, outcome, reply)
             IN  /\ requirements' = update.requirements
                 /\ summary_fields' = update.summary_fields
                 /\ current_agent' = update.current_agent
                 /\ errors' = MergeErrors(errors, update.errors)
                 /\ llm_calls' = IF sections = <<>> THEN llm_calls
                                 ELSE Append(llm_calls, <<"analyzer", 0, outcome>>)
                 /\ pc' = should_continue_after_analyzer(update.requirements)
                 /\ UNCHANGED <<sections, requirement_matches, overall_score,
                                scoring_breakdown, recommendations, proposal, status,
                                raised_in, sessions_acquired, sessions_open, catalog, rfp_text>>

MatcherNode ==
    /\ pc = "matcher"
    /\ UNCHANGED fnVars
    /\ UNCHANGED apiVars
    /\ executed' = Append(executed, "matcher")
    /\ \/ /\ requirements # <<>>
          /\ Raise("matcher")
       \/ \E update \in matcher_agent(requirements, catalog) :
             /\ requirement_matches' = update.requirement_matches
             /\ current_agent' = update.current_agent
             /\ errors' = MergeErrors(errors, update.errors)
             /\ llm_calls' = llm_calls \o update.calls
             /\ sessions_acquired' = sessions_acquired + update.acquired
             /\ sessions_open' = sessions_open + update.acquired - update.closed
             /\ pc' = AfterMatcher
             /\ UNCHANGED <<sections, requirements, overall_score, scoring_breakdown,
                            recommendations, proposal, status, raised_in, catalog, summary_fields, rfp_text>>

ScorerNode ==
    /\ pc = "scorer"
    /\ UNCHANGED fnVars
    /\ UNCHANGED apiVars
    /\ executed' = Append(executed, "scorer")
    /\ \E outcome \in LLMOutcomes, reply \in ScorerReplies :
        IF ScorerUsesLLM(requirement_matches) /\ ~get_llm(outcome)
        THEN Raise("scorer")
        ELSE LET update == scorer_agent(requirement_matches, outcome, reply)
             IN  /\ overall_score' = update.overall_score
                 /\ scoring_breakdown' = update.scoring_breakdown
                 /\ recommendations' = update.recommendations
                 /\ current_agent' = update.current_agent
                 /\ errors' = MergeErrors(errors, update.errors)
                 /\ llm_calls' = IF ScorerUsesLLM(requirement_matches)
                                 THEN Append(llm_calls, <<"scorer", 0, outcome>>)
                                 ELSE llm_calls
                 /\ pc' = AfterScorer
                 /\ UNCHANGED <<sections, requirements, requirement_matches, proposal,
                                status, raised_in, sessions_acquired, sessions_open,
                                catalog, summary_fields, rfp_text>>

ResponseNode ==
    /\ pc = "response"
    /\ UNCHANGED fnVars
    /\ UNCHANGED apiVars
    /\ executed' = Append(executed, "response")
    /\ \E outcome \in LLMOutcomes :
        IF LineItemsRaise(requirements, requirement_matches) \/ ~get_llm(outcome)
        THEN Raise("response")
        ELSE LET update == response_agent(outcome)
             IN  /\ proposal' = update.proposal
                 /\ current_agent' = update.current_agent
                 /\ errors' = MergeErrors(errors, update.errors)
                 /\ llm_calls' = Append(llm_calls, <<"response", 0, outcome>>)
                 /\ pc' = AfterResponse
                 /\ UNCHANGED <<sections, requirements, requirement_matches,
                                overall_score, scoring_breakdown, recommendations, status,
                                raised_in, sessions_acquired, sessions_open, catalog, summary_fields, rfp_text>>

\* run_rfp_analysis formats final_state into the record it returns
Return ==
    /\ pc = "END"
    /\ UNCHANGED fnVars
    /\ UNCHANGED apiVars
    /\ status' = RunStatus(errors)
    /\ pc' = "returned"
    /\ UNCHANGED <<sections, requirements, requirement_matches, overall_score,
                   scoring_breakdown, recommendations, proposal, errors, current_agent,
                   executed, raised_in, sessions_acquired, sessions_open, llm_calls,
                   catalog, summary_fields, rfp_text>>

Next ==
    \/ ParserNode
    \/ AnalyzerNode
    \/ MatcherNode
    \/ ScorerNode
    \/ ResponseNode
    \/ Return

Spec == Init /\ [][Next]_vars

(***************************************************************************)
(* Single calls of query_components_for_requirement and of                 *)
(* simple_score_matches, on specifications and catalogs drawn from bounded *)
(* sets.  A catalog is a sequence of blocks of identical rows (distinct    *)
(* ids and skus); a block of BlockRows rows is longer than every limit.    *)
(***************************************************************************)
MaxBlocks == 2
BlockRows == 11

Kinds == {KindLT, KindHTCu, KindHTAl, KindHT50, KindBare}

Blocks ==
    {<<k>> : k \in Kinds} \cup {[i \in 1..BlockRows |-> k] : k \in {KindLT, KindHTAl}}

RECURSIVE Flatten(_)
Flatten(seqs) == IF seqs = <<>> THEN <<>> ELSE Head(seqs) \o Flatten(Tail(seqs))

CallCatalogs == {MkRows(Flatten(bs)) : bs \in UNION {[1..n -> Blocks] : n \in 0..MaxBlocks}}

\* the specifications of a call: every field absent, falsy (0, "") or set
CallSpecs ==
    [voltage_kv : {None, Some(0), Some(11), Some(110), Some(330), Some(660)},
     conductor : {None, Some(<<>>), Some(<<"c", "u">>)},
     cores : {None, Some(<<"3", "C">>)},
     cross_section_mm2 : {None, Some(95)},
     insulation : {None, Some(<<"x", "l">>)},
     armour : {None, Some(<<"s", "w">>)},
     quantity : {QtyAbsent}]

CallInit ==
    /\ pc = "idle"
    /\ sections = <<>>
    /\ requirements = <<>>
    /\ summary_fields = NoSummary
    /\ rfp_text = RfpText
    /\ requirement_matches = <<>>
    /\ overall_score = Frac(0, 1)
    /\ scoring_breakdown = EmptyBreakdown
    /\ recommendations = <<>>
    /\ proposal = ""
    /\ errors = <<>>
    /\ current_agent = ""
    /\ status = "none"
    /\ executed = <<>>
    /\ raised_in = "none"
    /\ sessions_acquired = 0
    /\ sessions_open = 0
    /\ llm_calls = <<>>
    /\ catalog \in CallCatalogs
    /\ fn_pc = "call"
    /\ fn_specs \in CallSpecs
    /\ fn_candidates = None
    /\ fn_result = None
    /\ ApiIdle

pipeVars == <<pc, rfp_text, sections, requirements, summary_fields, requirement_matches, overall_score,
              scoring_breakdown, recommendations, proposal, errors, current_agent,
              status, executed, raised_in, sessions_acquired, sessions_open, llm_calls>>

\* candidates = query_components_for_requirement(session, specs)
Query ==
    /\ fn_pc = "call"
    /\ fn_candidates' = QueryTrace(catalog, fn_specs)
    /\ fn_pc' = "done"
    /\ UNCHANGED <<pipeVars, catalog, fn_specs, fn_result, apiVars>>

\* simple_score_matches(requirement, candidates), every row being a candidate
Score ==
    /\ fn_pc = "call"
    /\ fn_candidates' = [tier |-> 0, rows |-> ToDicts(catalog)]
    /\ fn_result' = simple_score_matches([specifications |-> fn_specs], ToDicts(catalog))
    /\ fn_pc' = "done"
    /\ UNCHANGED <<pipeVars, catalog, fn_specs, apiVars>>

SpecQuery == CallInit /\ [][Query]_vars

SpecScore == CallInit /\ [][Score]_vars

(***************************************************************************)
(* A single pass of the analyzer over one well-formed reply: the ids may   *)
(* be omitted, equal to a synthetic id, or the model's own.                *)
(***************************************************************************)
AnalyzerIds == {None, Some(SyntheticId(0)), Some(SyntheticId(1)), Some(<<"A">>)}

AnalyzerReplies ==
    UNION {[1..n -> [id : AnalyzerIds, specifications : PipelineSpecs]] : n \in 0..MaxReqs}

AnalyzeInit ==
    /\ pc = "idle"
    /\ sections = <<Section>>
    /\ requirements = <<>>
    /\ summary_fields = NoSummary
    /\ rfp_text = RfpText
    /\ requirement_matches = <<>>
    /\ overall_score = Frac(0, 1)
    /\ scoring_breakdown = EmptyBreakdown
    /\ recommendations = <<>>
    /\ proposal = ""
    /\ errors = <<>>
    /\ current_agent = ""
    /\ status = "none"
    /\ executed = <<>>
    /\ raised_in = "none"
    /\ sessions_acquired = 0
    /\ sessions_open = 0
    /\ llm_calls = <<>>
    /\ catalog = <<>>
    /\ fn_pc = "call"
    /\ fn_specs \in AnalyzerReplies
    /\ fn_candidates = None
    /\ fn_result = None
    /\ ApiIdle

\* analyzer_agent on sections whose model reply parses to fn_specs
Analyze ==
    /\ fn_pc = "call"
    /\ fn_result' = analyzer_agent(sections, "ok", fn_specs)
    /\ fn_pc' = "done"
    /\ UNCHANGED <<pipeVars, catalog, fn_specs, fn_candidates, apiVars>>

SpecAnalyze == AnalyzeInit /\ [][Analyze]_vars

(***************************************************************************)
(* Properties of a run (Spec).                                             *)
(***************************************************************************)
Terminated == pc \in {"returned", "raised"}

\* node has run to completion: it was invoked and returned its update
Completed(node) ==
    /\ \E i \in 1..Len(executed) : executed[i] = node
    /\ raised_in # node
    /\ pc # node

IsPrefix(a, b) == Len(a) <= Len(b) /\ SubSeq(b, 1, Len(a)) = a

\* C1: no exception escapes a stage: whatever fails inside a stage (a model
\* call, a parse, a database query, building the model client), the stage
\* returns an update and the run never ends in an exception.
C1_NoExceptionEscapes == pc # "raised" /\ raised_in = "none"

\* C2: the error log only grows: across every step of a run the log before
\* the step is a prefix of the log after it; no stage removes, reorders or
\* rewrites an earlier entry.
C2_ErrorsMonotonic == [][IsPrefix(errors, errors')]_vars

C2_Witness ==
    /\ pc = "returned"
    /\ Len(errors) >= 3
    /\ executed = <<"parser", "analyzer", "matcher", "scorer", "response">>

\* C3: the stages a run executes are exactly one of [parser],
\* [parser, analyzer, scorer, response] and
\* [parser, analyzer, matcher, scorer, response], and once the matcher has
\* run, scorer, response and the end follow unconditionally.
C3_StageOrder ==
    Terminated =>
        /\ executed \in {<<"parser">>,
                         <<"parser", "analyzer", "scorer", "response">>,
                         <<"parser", "analyzer", "matcher", "scorer", "response">>}
        /\ Completed("matcher") => pc = "returned"

\* the parser returned an update without sections
ParserGaveNoSections == Completed("parser") /\ sections = <<>>

\* C4 as stated: when the parser produces zero sections the run ends right
\* after the parser, requirements is empty and the run reports "completed".
C4_ZeroSectionsCompleted ==
    ParserGaveNoSections =>
        /\ pc \in {"END", "returned"}
        /\ executed = <<"parser">>
        /\ requirements = <<>>
        /\ pc = "returned" => status = "completed"

\* C4, amended: when the parser produces zero sections the run ends right
\* after the parser and requirements is empty; it reports "completed" when
\* the parser logged no error and "completed_with_errors" when it did.
C4_ZeroSectionsEndsRun ==
    ParserGaveNoSections =>
        /\ pc \in {"END", "returned"}
        /\ executed = <<"parser">>
        /\ requirements = <<>>
        /\ pc = "returned" =>
              status = IF errors = <<>> THEN "completed" ELSE "completed_with_errors"

C4_Witness ==
    /\ ParserGaveNoSections
    /\ pc = "returned"
    /\ errors = <<>>
    /\ status = "completed"

\* the analyzer returned an update without requirements
AnalyzerGaveNoRequirements == Completed("analyzer") /\ requirements = <<>>

\* C5: when the analyzer produces zero requirements the matcher is skipped
\* and no catalog session is acquired; the scorer runs next, on an empty
\* requirement_matches, and does not raise; the response stage runs after it.
C5_ZeroRequirementsSkipMatcher ==
    AnalyzerGaveNoRequirements =>
        /\ \A i \in 1..Len(executed) : executed[i] # "matcher"
        /\ sessions_acquired = 0
        /\ requirement_matches = <<>>
        /\ raised_in # "scorer"
        /\ \/ pc = "scorer" /\ executed = <<"parser", "analyzer">>
           \/ pc = "response" /\ executed = <<"parser", "analyzer", "scorer">>
           \/ /\ pc \in {"END", "returned", "raised"}
              /\ executed = <<"parser", "analyzer", "scorer", "response">>

C5_Witness ==
    /\ AnalyzerGaveNoRequirements
    /\ pc = "returned"
    /\ executed = <<"parser", "analyzer", "scorer", "response">>

\* C6: a returned run reports "completed_with_errors" exactly when its final
\* error log is non-empty and "completed" exactly when it is empty; no other
\* status is ever produced.
C6_StatusFromErrors ==
    /\ status \in {"none", "completed", "completed_with_errors"}
    /\ pc # "returned" => status = "none"
    /\ pc = "returned" =>
          /\ status = "completed_with_errors" <=> errors # <<>>
          /\ status = "completed" <=> errors = <<>>

C6_Witness ==
    /\ pc = "returned"
    /\ status = "completed_with_errors"
    /\ Completed("response")

\* C7: once the matcher has run, requirement_matches holds one entry per
\* requirement, whatever happened to each requirement.
C7_OneMatchPerRequirement ==
    Completed("matcher") => Len(requirement_matches) = Len(requirements)

(***************************************************************************)
(* Properties of one retrieval (SpecQuery).                                *)
(***************************************************************************)
\* catalog rows equal to the specification in voltage and cross-section
VoltageAndSectionRows ==
    SelectSeq(catalog, LAMBDA c : /\ c.voltage_kv = fn_specs.voltage_kv
                                  /\ c.cross_section_mm2 = fn_specs.cross_section_mm2)

SomeRowPassesAllFilters ==
    \E i \in 1..Len(catalog) :
        \A f \in ScoredFields : Truthy(fn_specs, f) => FilterHolds(f, fn_specs, catalog[i])

\* C8: with voltage, cross-section and conductor specified, no row passing
\* the full filter and some row equal in voltage and cross-section, retrieval
\* returns the Tier 2 result: the first rows (at most 10) equal in voltage and
\* cross-section, never the category rows of Tier 3; and Tier 2 answers only
\* when Tier 1 found nothing.
C8_TierOrdering ==
    fn_pc = "done" =>
        /\ fn_candidates.tier = 2 => ~SomeRowPassesAllFilters
        /\ ( /\ TruthyNum(fn_specs.voltage_kv)
             /\ TruthyNum(fn_specs.cross_section_mm2)
             /\ TruthyStr(fn_specs.conductor)
             /\ ~SomeRowPassesAllFilters
             /\ VoltageAndSectionRows # <<>> )
           => /\ fn_candidates.tier = 2
              /\ Len(fn_candidates.rows) <= 10
              /\ Len(fn_candidates.rows) <= Len(VoltageAndSectionRows)
              /\ Len(fn_candidates.rows) = 10 \/ Len(fn_candidates.rows) = Len(VoltageAndSectionRows)
              /\ \A i \in 1..Len(fn_candidates.rows) :
                    fn_candidates.rows[i].component_id = VoltageAndSectionRows[i].id

C8_Witness ==
    /\ fn_pc = "done"
    /\ TruthyNum(fn_specs.voltage_kv)
    /\ TruthyNum(fn_specs.cross_section_mm2)
    /\ TruthyStr(fn_specs.conductor)
    /\ ~SomeRowPassesAllFilters
    /\ Len(VoltageAndSectionRows) > 10
    /\ \E i \in 1..Len(catalog) : catalog[i].voltage_kv = fn_specs.voltage_kv
                                  /\ catalog[i].cross_section_mm2 # fn_specs.cross_section_mm2
    /\ fn_candidates.tier = 2
    /\ Len(fn_candidates.rows) = 10

\* C9 as stated: with a non-empty catalog, every requirement yields at least
\* one candidate.
C9_AlwaysACandidate ==
    (fn_pc = "done" /\ catalog # <<>>) => fn_candidates.rows # <<>>

\* the category the code derives from a voltage (in tenths of kV)
CategoryOfVoltage(v) ==
    IF v <= 11 THEN "LT Cable" ELSE IF v <= 330 THEN "HT Cable" ELSE "EHV Cable"

SomeRowInCategoryOfVoltage ==
    \E i \in 1..Len(catalog) :
        catalog[i].category = Some(CategoryOfVoltage(fn_specs.voltage_kv.val))

SomeRowOfCrossSection ==
    \E i \in 1..Len(catalog) :
        catalog[i].cross_section_mm2 = fn_specs.cross_section_mm2

\* C9, amended: a requirement with a (non-zero) voltage rating yields at
\* least one candidate whenever the catalog holds a row of the category
\* derived from that rating; a requirement without one yields no candidate
\* unless some row passes its full filter or equals its cross-section.
C9_CandidateWhenCategoryStocked ==
    fn_pc = "done" =>
        /\ (TruthyNum(fn_specs.voltage_kv) /\ SomeRowInCategoryOfVoltage)
              => fn_candidates.rows # <<>>
        /\ ( /\ ~TruthyNum(fn_specs.voltage_kv)
             /\ FilterFields(fn_specs) = {} \/ ~SomeRowPassesAllFilters
             /\ ~TruthyNum(fn_specs.cross_section_mm2) \/ ~SomeRowOfCrossSection )
              => fn_candidates.rows = <<>>

C9_Witness ==
    /\ fn_pc = "done"
    /\ fn_candidates.tier = 3
    /\ fn_specs.voltage_kv = Some(330)
    /\ fn_candidates.rows # <<>>

(***************************************************************************)
(* Properties of one fallback scoring (SpecScore).                         *)
(***************************************************************************)
\* the points the fallback scorer gives each field
PointsFor(f) ==
    CASE f \in {"voltage_kv", "cross_section_mm2"} -> 25
      [] f \in {"conductor", "insulation"} -> 15
      [] f \in {"cores", "armour"} -> 10

FlagPoints(matched, f) == IF f \in DOMAIN matched /\ matched[f] THEN PointsFor(f) ELSE 0

\* the candidate a scored entry was computed from
CandidateOf(entry) ==
    CHOOSE c \in {fn_candidates.rows[i] : i \in 1..Len(fn_candidates.rows)} :
        c.component_id = entry.component_id

ScoreIsWeightedSum(entry) ==
    /\ entry.score \in 0..100
    /\ entry.score = FlagPoints(entry.matched_specs, "voltage_kv")
                     + FlagPoints(entry.matched_specs, "cross_section_mm2")
                     + FlagPoints(entry.matched_specs, "conductor")
                     + FlagPoints(entry.matched_specs, "insulation")
                     + FlagPoints(entry.matched_specs, "cores")
                     + FlagPoints(entry.matched_specs, "armour")

VoltageFlagSound(entry, cand) ==
    FlagPoints(entry.matched_specs, "voltage_kv") = 25
        <=> /\ TruthyNum(fn_specs.voltage_kv)
            /\ TruthyNum(cand.voltage_kv)
            /\ cand.voltage_kv.val >= fn_specs.voltage_kv.val

\* C10: every score simple_score_matches returns is an integer in 0..100,
\* the sum of the weights (25, 25, 15, 15, 10, 10) of the fields flagged true
\* in matched_specs, and voltage earns its 25 only when the candidate's
\* voltage is at least the requirement's.
C10_ScoreBounds ==
    fn_pc = "done" =>
        \A i \in 1..Len(fn_result.scored_matches) :
            /\ ScoreIsWeightedSum(fn_result.scored_matches[i])
            /\ VoltageFlagSound(fn_result.scored_matches[i],
                                CandidateOf(fn_result.scored_matches[i]))

C10_Witness ==
    /\ fn_pc = "done"
    /\ \E i \in 1..Len(fn_result.scored_matches) : fn_result.scored_matches[i].score = 100
    /\ \E i \in 1..Len(fn_result.scored_matches) :
          /\ "voltage_kv" \in DOMAIN fn_result.scored_matches[i].matched_specs
          /\ ~fn_result.scored_matches[i].matched_specs["voltage_kv"]

\* the index of the candidate with this component id in the list scored
PositionOf(id) ==
    CHOOSE i \in 1..Len(fn_candidates.rows) : fn_candidates.rows[i].component_id = id

\* entry a comes before entry b in a descending stable sort
RanksBefore(a, b) ==
    \/ a.score > b.score
    \/ a.score = b.score /\ PositionOf(a.component_id) < PositionOf(b.component_id)

\* the component ids of the entries of a scored list
IdsOf(scored) == {scored[i].component_id : i \in 1..Len(scored)}

\* the entries of scored are the candidates' own scores, in ranking order
RankedEntries(scored) ==
    /\ \A i \in 1..Len(scored) :
          scored[i] = ScoreCandidate(fn_specs,
                                     fn_candidates.rows[PositionOf(scored[i].component_id)])
    /\ \A i \in 1..(Len(scored) - 1) : RanksBefore(scored[i], scored[i + 1])

\* every candidate whose id is not in ids ranks after the entry last
OthersRankAfter(last, ids) ==
    \A k \in 1..Len(fn_candidates.rows) :
        fn_candidates.rows[k].component_id \notin ids
           => RanksBefore(last, ScoreCandidate(fn_specs, fn_candidates.rows[k]))

\* C11: simple_score_matches returns at most 5 scored matches, in descending
\* order of score with equal scores in candidate order; they are the
\* highest-scoring candidates; best_match_id and coverage_score are the first
\* entry's id and score, or absent and 0 when there is no candidate.
C11_SortedTopFive ==
    fn_pc = "done" =>
        /\ Len(fn_result.scored_matches) <= 5
        /\ Len(fn_result.scored_matches) = 5
              \/ Len(fn_result.scored_matches) = Len(fn_candidates.rows)
        /\ RankedEntries(fn_result.scored_matches)
        /\ IF fn_candidates.rows = <<>>
           THEN fn_result.best_match_id = None /\ fn_result.coverage_score = 0
           ELSE /\ fn_result.best_match_id = Some(fn_result.scored_matches[1].component_id)
                /\ fn_result.coverage_score = fn_result.scored_matches[1].score
                /\ OthersRankAfter(fn_result.scored_matches[Len(fn_result.scored_matches)],
                                   IdsOf(fn_result.scored_matches))

C11_Witness ==
    /\ fn_pc = "done"
    /\ Len(fn_candidates.rows) > 5
    /\ Len(fn_result.scored_matches) = 5
    /\ PositionOf(fn_result.scored_matches[1].component_id) > 5
    /\ fn_result.scored_matches[1].score > fn_result.scored_matches[2].score
    /\ fn_result.scored_matches[2].score = fn_result.scored_matches[3].score

(***************************************************************************)
(* Properties of the matches of a run (Spec).                              *)
(***************************************************************************)
\* the catalog rows that pass every filter of the specifications specs
RowsMatchingAll(specs) ==
    {i \in 1..Len(catalog) :
        \A f \in ScoredFields : Truthy(specs, f) => FilterHolds(f, specs, catalog[i])}

\* the end-to-end scenario: the single 1.1 kV requirement, and a catalog with
\* one SKU matching all it specifies; the matcher has returned
LTScenario ==
    /\ Completed("matcher")
    /\ Len(requirements) = 1
    /\ requirements[1].specifications = SpecLT
    /\ Cardinality(RowsMatchingAll(SpecLT)) = 1

\* the scoring call of pass k failed inside the try of score_matches_with_llm,
\* whose except clause scored with simple_score_matches
FellBack(k) ==
    \E i \in 1..Len(llm_calls) :
        llm_calls[i] \in {<<"matcher", k, "invoke_error">>, <<"matcher", k, "not_json">>}

\* C12 as stated, on the path its sources name (the deterministic scorer): in
\* the end-to-end scenario the run produces exactly one RequirementMatch,
\* whose best_match.score and coverage_score are 100.
C12_ScenarioScores100 ==
    (LTScenario /\ FellBack(1)) =>
        /\ Len(requirement_matches) = 1
        /\ requirement_matches[1].best_match.some
        /\ requirement_matches[1].best_match.val.score = 100
        /\ requirement_matches[1].coverage_score = 100

\* C12, amended: in the end-to-end scenario, when the requirement is scored
\* by the deterministic fallback, the run produces exactly one
\* RequirementMatch whose best_match.score and coverage_score are 90: armour,
\* which the requirement does not specify, adds nothing.
C12_ScenarioScores90 ==
    (LTScenario /\ FellBack(1)) =>
        /\ Len(requirement_matches) = 1
        /\ requirement_matches[1].best_match.some
        /\ requirement_matches[1].best_match.val.component_id \in
              {catalog[i].id : i \in RowsMatchingAll(SpecLT)}
        /\ requirement_matches[1].best_match.val.score = 90
        /\ requirement_matches[1].coverage_score = 90

C12_Witness ==
    /\ LTScenario
    /\ FellBack(1)
    /\ pc = "returned"
    /\ requirement_matches[1].best_match.val.score = 90

\* C13: in every RequirementMatch of the record, whichever path scored it,
\* matches is in descending order of score and best_match is matches[1], or
\* absent exactly when matches is empty.
C13_MatchesSorted ==
    \A k \in 1..Len(requirement_matches) :
        /\ \A i \in 1..(Len(requirement_matches[k].matches) - 1) :
              requirement_matches[k].matches[i].score
                 >= requirement_matches[k].matches[i + 1].score
        /\ requirement_matches[k].best_match =
              IF requirement_matches[k].matches = <<>> THEN None
              ELSE Some(requirement_matches[k].matches[1])

\* C14: in every RequirementMatch of the record, coverage_score is
\* best_match.score when best_match is present and 0 when it is absent, and
\* lies in 0..100, whatever the scoring model returned.
C14_CoverageIsBestScore ==
    \A k \in 1..Len(requirement_matches) :
        /\ requirement_matches[k].coverage_score \in 0..100
        /\ requirement_matches[k].coverage_score =
              IF requirement_matches[k].best_match.some
              THEN requirement_matches[k].best_match.val.score
              ELSE 0

(***************************************************************************)
(* Properties of one analyzer pass (SpecAnalyze).                          *)
(***************************************************************************)
\* REQ-00n for the 1-based position n
PositionId(n) ==
    CASE n = 1 -> <<"R", "E", "Q", "-", "0", "0", "1">>
      [] n = 2 -> <<"R", "E", "Q", "-", "0", "0", "2">>
      [] n = 3 -> <<"R", "E", "Q", "-", "0", "0", "3">>
      [] n = 4 -> <<"R", "E", "Q", "-", "0", "0", "4">>

\* C15: every requirement whose id the extraction omitted receives the
\* synthetic id REQ-<n>, three digits zero-padded, n being its 1-based
\* position in the emitted requirements.
C15_SyntheticIds ==
    fn_pc = "done" =>
        /\ Len(fn_result.requirements) = Len(fn_specs)
        /\ \A k \in 1..Len(fn_specs) :
              ~fn_specs[k].id.some => fn_result.requirements[k].id = PositionId(k)

C15_Witness ==
    /\ fn_pc = "done"
    /\ Len(fn_specs) >= 2
    /\ fn_specs[1].id = Some(<<"A">>)
    /\ ~fn_specs[2].id.some
    /\ fn_result.requirements[2].id = <<"R", "E", "Q", "-", "0", "0", "2">>

\* C16: requirement ids are unique within a run: no two entries of
\* requirements share an id, also when the model supplies some ids and omits
\* others.
C16_UniqueIds ==
    fn_pc = "done" =>
        \A i, j \in 1..Len(fn_result.requirements) :
            i # j => fn_result.requirements[i].id # fn_result.requirements[j].id

(***************************************************************************)
(* Properties of the failure paths of a run (Spec).                        *)
(***************************************************************************)
\* the analyzer's model call returned text that is not the expected JSON
AnalyzerReplyUnparseable ==
    /\ Completed("analyzer")
    /\ \E i \in 1..Len(llm_calls) :
          llm_calls[i] \in {<<"analyzer", 0, "not_json">>, <<"analyzer", 0, "bad_shape">>}

AnalyzerErrors ==
    {"Analyzer Agent: Failed to parse LLM response", "Analyzer Agent: exception",
     "Analyzer Agent: No sections to analyze"}

ScoringFailed(k) ==
    \E i \in 1..Len(llm_calls) :
        llm_calls[i] \in {<<"matcher", k, "invoke_error">>, <<"matcher", k, "not_json">>,
                          <<"matcher", k, "missing_keys">>, <<"matcher", k, "bad_shape">>}

\* the RequirementMatch the deterministic scorer gives req on candidates
FallbackMatchOn(req, candidates, simple) ==
    [requirement_id |-> req.id,
     matches |-> BuildMatches(simple.scored_matches, candidates),
     best_match |-> IF simple.scored_matches = <<>> THEN None
                    ELSE Some(BuildMatches(simple.scored_matches, candidates)[1]),
     coverage_score |-> simple.coverage_score]

FallbackMatchFor(req, candidates) ==
    FallbackMatchOn(req, candidates, simple_score_matches(req, candidates))

MatcherLoopRaised ==
    \E i \in 1..Len(errors) : errors[i] = "Matcher Agent: exception"

\* C18: whenever the scoring call for a requirement with candidates fails
\* in a listed way, the requirement still gets the RequirementMatch of the
\* deterministic fallback scorer, and the remaining requirements are
\* processed.
C18_ScoringFallsBack ==
    Completed("matcher") =>
        \A k \in 1..Len(requirements) :
            ScoringFailed(k) =>
                /\ Len(requirement_matches) >= k
                /\ requirement_matches[k] =
                      FallbackMatchFor(requirements[k],
                                       query_components_for_requirement(
                                           catalog, requirements[k].specifications))
                /\ ~MatcherLoopRaised => Len(requirement_matches) = Len(requirements)

ScorerErrors ==
    {"Scorer Agent: No matches to score", "Scorer Agent: LLM scoring failed, using fallback"}

\* the scorer was invoked on an empty requirement_matches
ScorerRanOnNothing ==
    /\ \E i \in 1..Len(executed) : executed[i] = "scorer"
    /\ requirement_matches = <<>>

\* C19: the scorer run on an empty requirement_matches never raises and never
\* calls the model; it returns overall_score 0, an empty scoring_breakdown
\* and a nothing-to-evaluate recommendation, and appends one error entry.
C19_ScorerEmptyInput ==
    ScorerRanOnNothing =>
        /\ raised_in # "scorer"
        /\ \A i \in 1..Len(llm_calls) : llm_calls[i][1] # "scorer"
        /\ overall_score = [num |-> 0, den |-> 1]
        /\ scoring_breakdown = [kind |-> "empty"]
        /\ recommendations = <<"No requirements were matched. Unable to evaluate.">>
        /\ Cardinality({i \in 1..Len(errors) : errors[i] \in ScorerErrors}) = 1
        /\ \E i \in 1..Len(errors) : errors[i] = "Scorer Agent: No matches to score"

C19_Witness ==
    /\ ScorerRanOnNothing
    /\ pc = "returned"
    /\ requirements # <<>>
    /\ recommendations = <<"No requirements were matched. Unable to evaluate.">>

\* C20: a matcher invocation acquires at most one catalog session and closes
\* it before it returns, on success and when a query or a scoring step
\* raises; no session is open once the stage has returned.
C20_SessionClosed ==
    /\ sessions_acquired \in {0, 1}
    /\ sessions_open = 0
    /\ (Completed("matcher") /\ requirements # <<>>) => sessions_acquired = 1
    /\ ~(\E i \in 1..Len(executed) : executed[i] = "matcher") => sessions_acquired = 0

C20_Witness ==
    /\ Completed("matcher")
    /\ MatcherLoopRaised
    /\ sessions_acquired = 1
    /\ sessions_open = 0
    /\ Len(requirement_matches) = 1
    /\ Len(requirements) = 2

(***************************************************************************)
(* Zero and empty values; Tier 1 and Tier 3 (SpecScore, SpecQuery).        *)
(***************************************************************************)
\* C21: a specification field whose value is zero or the empty string is a
\* specified field, unlike an absent one: fallback scoring evaluates it and
\* records it in matched_specs for every candidate that has the field.
C21_ZeroIsSpecified ==
    fn_pc = "done" =>
        \A i \in 1..Len(fn_result.scored_matches) :
            \A f \in ScoredFields :
                (fn_specs[f].some /\ Truthy(CandidateOf(fn_result.scored_matches[i]), f))
                   => f \in DOMAIN fn_result.scored_matches[i].matched_specs

\* row (a catalog row or a candidate dict) satisfies field f of the call's
\* specifications: equality, or case-insensitive substring
Satisfies(f, row) ==
    /\ row[f].some
    /\ IF f \in {"conductor", "insulation", "armour"}
       THEN Contains(Lower(fn_specs[f].val), Lower(row[f].val))
       ELSE row[f].val = fn_specs[f].val

SatisfiesAllSpecified(row) == \A f \in ScoredFields : Truthy(fn_specs, f) => Satisfies(f, row)

SomeFieldSpecified == \E f \in ScoredFields : Truthy(fn_specs, f)

\* the ids of the catalog rows satisfying every specified field, in catalog order
StrictIds ==
    LET hits == SelectSeq(catalog, SatisfiesAllSpecified)
    IN  [i \in 1..Len(hits) |-> hits[i].id]

\* ids is made of the first entries of all, at most n of them
FirstOf(ids, all, n) ==
    /\ Len(ids) <= n
    /\ Len(ids) = n \/ Len(ids) = Len(all)
    /\ \A i \in 1..Len(ids) : i <= Len(all) /\ ids[i] = all[i]

ReturnedRowIds == [i \in 1..Len(fn_candidates.rows) |-> fn_candidates.rows[i].component_id]

SomeRowPassesPriority ==
    \E i \in 1..Len(catalog) :
        \A f \in {"voltage_kv", "cross_section_mm2"} :
            Truthy(fn_specs, f) => Satisfies(f, catalog[i])

TiersOneAndTwoEmpty ==
    \/ ~SomeFieldSpecified
    \/ /\ StrictIds = <<>>
       /\ \/ ~TruthyNum(fn_specs.voltage_kv) /\ ~TruthyNum(fn_specs.cross_section_mm2)
          \/ ~SomeRowPassesPriority

\* the ids of the rows of the category derived from the voltage, in catalog order
CategoryIds ==
    LET hits == SelectSeq(catalog, LAMBDA c :
                    c.category = Some(CategoryOfVoltage(fn_specs.voltage_kv.val)))
    IN  [i \in 1..Len(hits) |-> hits[i].id]

\* C23: when Tiers 1 and 2 return nothing, a specified voltage v yields at
\* most 5 rows, all of the category LT Cable (v <= 1.1), HT Cable
\* (1.1 < v <= 33) or EHV Cable (v > 33), whatever the other fields; without
\* a voltage the result is empty.
C23_TierThree ==
    (fn_pc = "done" /\ TiersOneAndTwoEmpty) =>
        IF TruthyNum(fn_specs.voltage_kv)
        THEN /\ fn_candidates.tier = 3
             /\ FirstOf(ReturnedRowIds, CategoryIds, 5)
             /\ \A i \in 1..Len(fn_candidates.rows) :
                   fn_candidates.rows[i].category
                      = Some(CategoryOfVoltage(fn_specs.voltage_kv.val))
        ELSE fn_candidates.rows = <<>>

C23_Witness ==
    /\ fn_pc = "done"
    /\ TiersOneAndTwoEmpty
    /\ fn_specs.voltage_kv = Some(330)
    /\ TruthyStr(fn_specs.conductor)
    /\ Len(fn_candidates.rows) = 5
    /\ Len(CategoryIds) > 5
    /\ \E i \in 1..5 : fn_candidates.rows[i].conductor # fn_candidates.rows[1].conductor

\* the scored fields that have a value on both the requirement and the
\* candidate of a scored entry
PresentOnBoth(entry) ==
    {f \in ScoredFields : fn_specs[f].some /\ CandidateOf(entry)[f].some}

\* C24: in the fallback scorer's output the keys of matched_specs are exactly
\* the scored fields present on both the requirement and the candidate; each
\* such field has a boolean entry and a field absent on either side has none.
C24_MatchedSpecsKeys ==
    fn_pc = "done" =>
        \A i \in 1..Len(fn_result.scored_matches) :
            /\ DOMAIN fn_result.scored_matches[i].matched_specs
                  = PresentOnBoth(fn_result.scored_matches[i])
            /\ \A f \in DOMAIN fn_result.scored_matches[i].matched_specs :
                  fn_result.scored_matches[i].matched_specs[f] \in BOOLEAN

(***************************************************************************)
(* The scorer's fallback, retries, frames and partial results (Spec).      *)
(***************************************************************************)
\* the scorer's model call failed: a transport or authentication error, or
\* a reply that is not the expected JSON object
ScorerCallFailed ==
    \E i \in 1..Len(llm_calls) :
        llm_calls[i] \in {<<"scorer", 0, "invoke_error">>, <<"scorer", 0, "not_json">>,
                          <<"scorer", 0, "bad_shape">>}

\* the sum of coverage_score over requirement_matches
TotalCoverage ==
    LET s[i \in 0..Len(requirement_matches)] ==
            IF i = 0 THEN 0 ELSE s[i - 1] + requirement_matches[i].coverage_score
    IN  s[Len(requirement_matches)]

NumMatched == Cardinality({i \in 1..Len(requirement_matches) : requirement_matches[i].best_match.some})

NumMatchedInStock ==
    Cardinality({i \in 1..Len(requirement_matches) :
                    /\ requirement_matches[i].best_match.some
                    /\ requirement_matches[i].best_match.val.in_stock})

\* the fraction q equals n / d
FracIs(q, n, d) == q.den # 0 /\ d # 0 /\ q.num * d = n * q.den

\* C25: when the scorer's model call fails on a non-empty requirement_matches,
\* overall_score is the mean coverage_score, the technical-coverage weighted
\* score is that mean times 0.4, the availability weighted score is 20 times
\* (matched requirements in stock / matched requirements) and 0 when none is
\* matched, the stage does not raise, and it appends exactly one error.
C25_ScorerFallback ==
    ScorerCallFailed =>
        /\ requirement_matches # <<>>
        /\ raised_in # "scorer"
        /\ FracIs(overall_score, TotalCoverage, Len(requirement_matches))
        /\ scoring_breakdown.kind = "fallback"
        /\ FracIs(scoring_breakdown.technical_coverage,
                  TotalCoverage * 4, Len(requirement_matches) * 10)
        /\ IF NumMatched > 0
           THEN FracIs(scoring_breakdown.availability, NumMatchedInStock * 20, NumMatched)
           ELSE FracIs(scoring_breakdown.availability, 0, 1)
        /\ Cardinality({i \in 1..Len(errors) : errors[i] \in ScorerErrors}) = 1
        /\ \E i \in 1..Len(errors) :
              errors[i] = "Scorer Agent: LLM scoring failed, using fallback"

C25_Witness ==
    /\ ScorerCallFailed
    /\ pc = "returned"
    /\ Len(requirement_matches) = 2
    /\ NumMatched = 1
    /\ NumMatchedInStock = 1
    /\ TotalCoverage > 0

\* the same path with no requirement matched: the availability guard
C25_WitnessNoneMatched ==
    /\ ScorerCallFailed
    /\ NumMatched = 0
    /\ scoring_breakdown.kind = "fallback"

\* the outcomes of a model call that count as a failure of the call
FailedOutcomes == {"invoke_error", "not_json", "bad_shape", "missing_keys"}

CallFailed(node) ==
    \E i \in 1..Len(llm_calls) : llm_calls[i][1] = node /\ llm_calls[i][3] \in FailedOutcomes

\* the (stage, pass) pairs the model was invoked for
CallKeys == {<<llm_calls[i][1], llm_calls[i][2]>> : i \in 1..Len(llm_calls)}

\* C26: no stage retries a model call: parser, analyzer, scorer and response
\* invoke the model at most once in a run and the matcher at most once per
\* requirement; after a failed call the stage finishes the same execution on
\* its deterministic or empty path.
C26_NoRetry ==
    /\ Cardinality(CallKeys) = Len(llm_calls)
    /\ CallKeys \subseteq ({"parser", "analyzer", "scorer", "response"} \X {0})
                          \cup ({"matcher"} \X (1..Len(requirements)))
    /\ Cardinality({executed[i] : i \in 1..Len(executed)}) = Len(executed)
    /\ CallFailed("parser") => sections = <<>> /\ executed = <<"parser">>
    /\ CallFailed("analyzer") => requirements = <<>>
    /\ CallFailed("scorer") => scoring_breakdown.kind = "fallback" /\ raised_in # "scorer"
    /\ CallFailed("response") => proposal = "template" /\ raised_in # "response"

C26_Witness ==
    /\ pc = "returned"
    /\ Len(requirements) = 2
    /\ Len(llm_calls) = 6
    /\ llm_calls[3][3] = "invoke_error"
    /\ llm_calls[4][3] = "ok"
    /\ CallFailed("scorer")
    /\ CallFailed("response")

ScorerOutputs == <<overall_score, scoring_breakdown, recommendations>>

Executed(node) == \E i \in 1..Len(executed) : executed[i] = node

FailedPass == Len(requirement_matches) + 1

\* C28: when the matcher fails on the k-th requirement, the entries for
\* requirements 1..k-1 are kept in order, exactly one matcher error is
\* appended, and the scorer and the response stage still execute on that
\* partial output.
C28_PartialMatches ==
    (MatcherLoopRaised /\ Terminated) =>
        /\ FailedPass \in 1..Len(requirements)
        /\ \A i \in 1..Len(requirement_matches) :
              requirement_matches[i].requirement_id = requirements[i].id
        /\ Cardinality({i \in 1..Len(errors) : errors[i] = "Matcher Agent: exception"}) = 1
        /\ Completed("scorer")
        /\ Completed("response")

\* m carries the identity and the commercial attributes of candidate c
CopiedFrom(m, c) ==
    /\ m.component_id = c.component_id
    /\ m.sku = c.sku
    /\ m.name = c.name
    /\ m.category = c.category
    /\ m.price_per_meter = c.price_per_meter
    /\ m.in_stock = c.in_stock
    /\ m.lead_time_days = c.lead_time_days

\* every entry of matches is a copy of one of candidates
AllFromCandidates(matches, candidates) ==
    \A j \in 1..Len(matches) :
        \E i \in 1..Len(candidates) : CopiedFrom(matches[j], candidates[i])

\* what retrieval returns for each specification a requirement of a run may
\* carry, on each catalog a run may start with
Retrieved ==
    [rows \in PipelineCatalogs, specs \in PipelineSpecs |->
        query_components_for_requirement(rows, specs)]

\* C29: every ComponentMatch of a RequirementMatch refers to a candidate that
\* retrieval returned for that same requirement, with sku, name, category,
\* price, stock flag and lead time copied from it; an id the scoring reply
\* invented, or a candidate of another requirement only, never appears.
C29_MatchesAreCandidates ==
    \A k \in 1..Len(requirement_matches) :
        /\ k <= Len(requirements)
        /\ requirement_matches[k].requirement_id = requirements[k].id
        /\ AllFromCandidates(requirement_matches[k].matches,
                             Retrieved[catalog, requirements[k].specifications])

\* the first requirement's reply named an id no candidate has (its entry was
\* dropped, its coverage_score kept); the second has two matches
C29_Witness ==
    /\ Completed("matcher")
    /\ Len(requirement_matches) = 2
    /\ Len(llm_calls) >= 3
    /\ llm_calls[3] = <<"matcher", 1, "ok">>
    /\ requirement_matches[1].matches = <<>>
    /\ requirement_matches[1].coverage_score = 90
    /\ Len(requirement_matches[2].matches) >= 2
    /\ requirements[1].specifications # requirements[2].specifications

(***************************************************************************)
(* The API layer: /upload, /extract, /analyze and the background task.     *)
(* analyze_rfp is a coroutine without an await: the event loop serves one  *)
(* such request at a time, while background tasks run in worker threads    *)
(* and may be scheduled between any two of its statements.                 *)
(***************************************************************************)
ApiInit ==
    /\ pc = "idle"
    /\ sections = <<>>
    /\ requirements = <<>>
    /\ summary_fields = NoSummary
    /\ rfp_text = RfpText
    /\ requirement_matches = <<>>
    /\ overall_score = Frac(0, 1)
    /\ scoring_breakdown = EmptyBreakdown
    /\ recommendations = <<>>
    /\ proposal = ""
    /\ errors = <<>>
    /\ current_agent = ""
    /\ status = "none"
    /\ executed = <<>>
    /\ raised_in = "none"
    /\ sessions_acquired = 0
    /\ sessions_open = 0
    /\ llm_calls = <<>>
    /\ catalog = <<>>
    /\ fn_pc = "idle"
    /\ fn_specs = None
    /\ fn_candidates = None
    /\ fn_result = None
    /\ ApiIdle

\* the texts extract_text_from_file may return
ExtractedTexts == {"", "RFP"}

\* POST /upload: a record under a fresh rfp_id
upload_rfp(id) ==
    /\ ~records[id].exists
    /\ records' = [records EXCEPT ![id] = [exists |-> TRUE, text |-> None]]
    /\ response' = Some([code |-> 200, rfp_id |-> id, status |-> "uploaded"])
    /\ UNCHANGED <<analysis_status, analysis_results, tasks, handler>>

\* POST /extract
extract(id) ==
    IF ~records[id].exists
    THEN /\ response' = Some([code |-> 404, rfp_id |-> id, status |-> "RFP not found"])
         /\ UNCHANGED <<records, analysis_status, analysis_results, tasks, handler>>
    ELSE \E text \in ExtractedTexts :
            /\ records' = [records EXCEPT ![id].text = Some(text)]
            /\ response' = Some([code |-> 200, rfp_id |-> id, status |-> "extracted"])
            /\ UNCHANGED <<analysis_status, analysis_results, tasks, handler>>

\* `not rec.text`
NoText(rec) == ~rec.text.some \/ rec.text.val = ""

\* analysis_status.get(rfp_id) == "processing"
AlreadyProcessing(id) == analysis_status[id] = Some("processing")

\* the number of /analyze requests so far that got past the checks
Scheduled == Len(tasks) + (IF handler.some THEN 1 ELSE 0)

\* POST /analyze up to the status check: 404, 400, "already in progress", or
\* on to scheduling
analyze_rfp_check(id) ==
    /\ ~handler.some
    /\ Scheduled < MaxCalls
    /\ UNCHANGED <<records, analysis_status, analysis_results, tasks>>
    /\ IF ~records[id].exists
       THEN /\ response' = Some([code |-> 404, rfp_id |-> id, status |-> "RFP not found"])
            /\ UNCHANGED handler
       ELSE IF NoText(records[id])
       THEN /\ response' = Some([code |-> 400, rfp_id |-> id, status |-> "not extracted"])
            /\ UNCHANGED handler
       ELSE IF AlreadyProcessing(id)
       THEN /\ response' = Some([code |-> 200, rfp_id |-> id, status |-> "processing"])
            /\ UNCHANGED handler
       ELSE /\ handler' = Some([rfp_id |-> id])
            /\ UNCHANGED response

\* POST /analyze from add_task on: the task is scheduled, then the status
\* is set to "queued"
analyze_rfp_schedule ==
    /\ handler.some
    /\ tasks' = Append(tasks, [rfp_id |-> handler.val.rfp_id, state |-> "queued"])
    /\ analysis_status' = [analysis_status EXCEPT ![handler.val.rfp_id] = Some("queued")]
    /\ response' = Some([code |-> 200, rfp_id |-> handler.val.rfp_id, status |-> "queued"])
    /\ handler' = None
    /\ UNCHANGED <<records, analysis_results>>

\* run_analysis_background begins: analysis_status[rfp_id] = "processing"
run_analysis_background_start(t) ==
    /\ tasks[t].state = "queued"
    /\ tasks' = [tasks EXCEPT ![t].state = "running"]
    /\ analysis_status' = [analysis_status EXCEPT ![tasks[t].rfp_id] = Some("processing")]
    /\ UNCHANGED <<records, analysis_results, handler, response>>

\* run_analysis_background ends: the run returned its record, or raised
run_analysis_background_end(t) ==
    /\ tasks[t].state = "running"
    /\ tasks' = [tasks EXCEPT ![t].state = "done"]
    /\ \E outcome \in {"completed", "failed"} :
          /\ analysis_results' = [analysis_results EXCEPT ![tasks[t].rfp_id] = Some(outcome)]
          /\ analysis_status' = [analysis_status EXCEPT ![tasks[t].rfp_id] = Some(outcome)]
    /\ UNCHANGED <<records, handler, response>>

Upload == (\E id \in RfpIds : upload_rfp(id)) /\ UNCHANGED <<pipeVars, catalog, fnVars>>

Extract == (\E id \in RfpIds : extract(id)) /\ UNCHANGED <<pipeVars, catalog, fnVars>>

AnalyzeCheck == (\E id \in RfpIds : analyze_rfp_check(id)) /\ UNCHANGED <<pipeVars, catalog, fnVars>>

AnalyzeSchedule == analyze_rfp_schedule /\ UNCHANGED <<pipeVars, catalog, fnVars>>

TaskStart ==
    (\E t \in 1..Len(tasks) : run_analysis_background_start(t))
        /\ UNCHANGED <<pipeVars, catalog, fnVars>>

TaskEnd ==
    (\E t \in 1..Len(tasks) : run_analysis_background_end(t))
        /\ UNCHANGED <<pipeVars, catalog, fnVars>>

ApiNext ==
    \/ Upload
    \/ Extract
    \/ AnalyzeCheck
    \/ AnalyzeSchedule
    \/ TaskStart
    \/ TaskEnd

SpecApi == ApiInit /\ [][ApiNext]_vars

(***************************************************************************)
(* Properties of the API layer (SpecApi).                                  *)
(***************************************************************************)
\* the background runs for id that are queued or executing
LiveRuns(id) ==
    {t \in 1..Len(tasks) : tasks[t].rfp_id = id /\ tasks[t].state \in {"queued", "running"}}

\* C30: for any one rfp_id at most one background analysis run is queued or
\* executing at any time: a /analyze request made while a run is queued or
\* in progress schedules no second run, under any interleaving.
C30_OneRunPerRfp == \A id \in RfpIds : Cardinality(LiveRuns(id)) <= 1

====
